---- MODULE Spec2Model ----
(***************************************************************************)
(* Model of app.py, the PIG (Probabilidad de Ignicion) calculator.         *)
(*                                                                         *)
(* Strings are sequences of one-character strings, so that strip, lower,   *)
(* replace, split, substring containment and float() are computed as       *)
(* Python computes them.  Table cells (HCFM, correction, PIG) are numbers  *)
(* held in halves: the integer 41 stands for 20.5.  The widget inputs      *)
(* (temp, hr, sombra, pendiente, month) are integers, as the widgets give  *)
(* them, and the hour is held in minutes (hora_dec * 60).                  *)
(***************************************************************************)
EXTENDS Integers, Sequences, FiniteSets, TLC

VARIABLES
    files,        \* set of FILES keys whose csv exists on disk
    tablas,       \* content of the csv files: FILES key -> table
    temp, hr, hora, fecha_month, sombra, pendiente, exposicion,   \* widgets
    pc,           \* position of the button handler / of the function call
    hora_dec, base, corr, hcfm_final, pig, cat_info,   \* locals of the handler
    msgs,         \* msg_base, msg_corr, msg_pig as they are produced
    reads,        \* FILES keys passed to pd.read_csv, in order
    called,       \* business functions the handler has run, in order
    call          \* a single function call under test: arguments and result

vars == <<files, tablas, temp, hr, hora, fecha_month, sombra, pendiente, exposicion,
          pc, hora_dec, base, corr, hcfm_final, pig, cat_info, msgs, reads, called,
          call>>

pipeline_vars == <<files, tablas, temp, hr, hora, fecha_month, sombra, pendiente,
                   exposicion, hora_dec, base, corr, hcfm_final, pig, cat_info,
                   msgs, reads, called>>

----------------------------------------------------------------------------
(* Characters and Python string methods *)

Digits == <<"0", "1", "2", "3", "4", "5", "6", "7", "8", "9">>

IsDigit(c) == \E i \in 1..10 : Digits[i] = c

DigitVal(c) == (CHOOSE i \in 1..10 : Digits[i] = c) - 1

IsSpace(c) == c = " "

\* str.lower(), on the letters the labels and headers of the model use
LowerChar(c) ==
    CASE c = "N" -> "n" [] c = "S" -> "s" [] c = "E" -> "e" [] c = "O" -> "o"
      [] c = "W" -> "w" [] c = "T" -> "t" [] c = "D" -> "d" [] c = "A" -> "a"
      [] OTHER -> c

Lower(s) == [i \in 1..Len(s) |-> LowerChar(s[i])]

\* str.strip()
Strip(s) ==
    LET keep == { i \in 1..Len(s) : ~IsSpace(s[i]) } IN
    IF keep = {} THEN <<>>
    ELSE SubSeq(s, CHOOSE i \in keep : \A j \in keep : i <= j,
                   CHOOSE i \in keep : \A j \in keep : j <= i)

\* `sub in s` for strings
Contains(s, sub) ==
    \E i \in 1..(Len(s) - Len(sub) + 1) : SubSeq(s, i, i + Len(sub) - 1) = sub

\* `c in s` for a single character
HasChar(s, c) == \E i \in 1..Len(s) : s[i] = c

\* s.replace(c, '')
RemoveChar(s, c) ==
    LET out[i \in 0..Len(s)] ==
            IF i = 0 THEN <<>>
            ELSE IF s[i] = c THEN out[i - 1] ELSE Append(out[i - 1], s[i])
    IN  out[Len(s)]

\* s.replace(' a ', '-'): non-overlapping occurrences, left to right;
\* rest[i] is the replacement of the suffix that starts at position i
ReplaceA(s) ==
    LET n == Len(s)
        rest[i \in 1..(n + 1)] ==
            IF i > n THEN <<>>
            ELSE IF i + 2 <= n /\ s[i] = " " /\ s[i + 1] = "a" /\ s[i + 2] = " "
                 THEN <<"-">> \o rest[i + 3]
            ELSE <<s[i]>> \o rest[i + 1]
    IN  rest[1]

\* s.split(c): the pieces between the occurrences of c
Split(s, c) ==
    LET at == { k \in 1..Len(s) : s[k] = c }
        \* position of the m-th occurrence of c; 0 and Len(s)+1 at the ends
        sep(m) == IF m = 0 THEN 0
                  ELSE IF m > Cardinality(at) THEN Len(s) + 1
                  ELSE CHOOSE k \in at : Cardinality({ q \in at : q < k }) = m - 1
    IN  [m \in 1..(Cardinality(at) + 1) |-> SubSeq(s, sep(m - 1) + 1, sep(m) - 1)]

DigitsToInt(s) ==
    LET acc[i \in 0..Len(s)] ==
            IF i = 0 THEN 0 ELSE 10 * acc[i - 1] + DigitVal(s[i])
    IN  acc[Len(s)]

AllDigits(s) == s # <<>> /\ \A i \in 1..Len(s) : IsDigit(s[i])

\* float(s): surrounding whitespace is ignored, one optional sign, then
\* decimal digits or 'nan'; anything else raises ValueError.
\* Result: ok = FALSE for ValueError, nan = TRUE for float('nan').
\* u: the text after the sign, neg: the sign was '-'
FloatOfUnsigned(u, neg) ==
    IF AllDigits(u)
        THEN [ok |-> TRUE, nan |-> FALSE,
              v |-> IF neg THEN 0 - DigitsToInt(u) ELSE DigitsToInt(u)]
    ELSE IF Lower(u) = <<"n", "a", "n">>
        THEN [ok |-> TRUE, nan |-> TRUE, v |-> 0]
    ELSE [ok |-> FALSE, nan |-> FALSE, v |-> 0]

FloatOfStripped(t) ==
    IF t # <<>> /\ Head(t) \in {"+", "-"}
        THEN FloatOfUnsigned(Tail(t), Head(t) = "-")
    ELSE FloatOfUnsigned(t, FALSE)

PyFloat(s) == FloatOfStripped(Strip(s))

\* str(n) of an integer
RECURSIVE NatStr(_)
NatStr(n) == IF n < 10 THEN <<Digits[n + 1]>> ELSE NatStr(n \div 10) \o <<Digits[(n % 10) + 1]>>

IntStr(n) == IF n < 0 THEN <<"-">> \o NatStr(0 - n) ELSE NatStr(n)

----------------------------------------------------------------------------
(* parse_range *)

\* Outcome of the body of the try block: a returned boolean, or an exception
Returned(b) == [exc |-> FALSE, ret |-> b]
Raised == [exc |-> TRUE, ret |-> FALSE]

\* value >= float(t), python float comparison (anything against nan is False)
\* f, lo, hi below are results of float()
Ge(value, f) == IF ~f.ok THEN Raised ELSE Returned(~f.nan /\ value >= f.v)

Lt(value, f) == IF ~f.ok THEN Raised ELSE Returned(~f.nan /\ value < f.v)

Eq(value, f) == IF ~f.ok THEN Raised ELSE Returned(~f.nan /\ f.v = value)

\* line 156 / 157: value >= float(t)
GeFloat(value, t) == Ge(value, PyFloat(t))

\* line 160: value < float(t)
LtFloat(value, t) == Lt(value, PyFloat(t))

\* line 168: float(t) == value
EqFloat(value, t) == Eq(value, PyFloat(t))

\* float(parts[0]) <= value <= float(parts[1]); the chained comparison
\* evaluates float(parts[1]) only when the first comparison is true
Between(value, lo, hi) ==
    IF ~lo.ok THEN Raised
    ELSE IF lo.nan \/ ~(lo.v <= value) THEN Returned(FALSE)
    ELSE IF ~hi.ok THEN Raised
    ELSE Returned(~hi.nan /\ value <= hi.v)

BetweenParts(value, parts) == Between(value, PyFloat(parts[1]), PyFloat(parts[2]))

\* lines 164-165
BetweenFloat(value, s) == BetweenParts(value, Split(s, "-"))

\* lines 154-168, the body of the try block, on the cleaned label s
TryBody(value, s) ==
    IF HasChar(s, ">") THEN GeFloat(value, RemoveChar(s, ">"))
    ELSE IF HasChar(s, "+") THEN GeFloat(value, RemoveChar(s, "+"))
    ELSE IF HasChar(s, "<") THEN LtFloat(value, RemoveChar(s, "<"))
    ELSE IF HasChar(s, "-") THEN BetweenFloat(value, s)
    ELSE EqFloat(value, s)

\* the exception handler left out: the exception reaches the caller
ExceptPropagates(r) == r

\* lines 169-170: the bare except turns any exception into False
ExceptFalse(r) == IF r.exc THEN Returned(FALSE) ELSE r

\* A blank csv field is read by pandas as NaN; it is modelled as the empty
\* sequence, for which pd.isna is true.
IsNa(range_str) == range_str = <<>>

\* lines 146-170, s0 = str(range_str).strip().lower()
ParseNormalized(value, s0) ==
    IF Contains(s0, <<"t", "o", "d">>) THEN Returned(TRUE)
    ELSE ExceptFalse(TryBody(value, ReplaceA(RemoveChar(s0, "%"))))

\* line 143 and the rest
ParseStripped(value, range_str, s0) ==
    IF IsNa(range_str) \/ s0 = <<"n", "a", "n">> THEN Returned(FALSE)
    ELSE ParseNormalized(value, s0)

parse_range_call(value, range_str) ==
    ParseStripped(value, range_str, Lower(Strip(range_str)))

parse_range(value, range_str) == parse_range_call(value, range_str).ret

----------------------------------------------------------------------------
(* Calls of parse_range on enumerated labels *)

MaxPieces == 3

\* The fragments the labels of the range columns are made of
Pieces == { <<"2", "0">>, <<"5">>, <<">">>, <<"+">>, <<"<">>, <<"-">>, <<"%">>,
            <<" ", "a", " ">>, <<" ">>, <<"x">>, <<"T", "o", "d">>,
            <<"n", "a", "n">> }

RECURSIVE Concat(_)
Concat(ps) == IF ps = <<>> THEN <<>> ELSE Head(ps) \o Concat(Tail(ps))

Labels == { Concat(ps) : ps \in UNION { [1..k -> Pieces] : k \in 0..MaxPieces } }

Values == { -5, 5, 19, 20, 30 }

NoCall == [fn |-> "none"]

\* the page is not involved: a function is called on its own
IdleHandler ==
    /\ temp = 0 /\ hr = 0 /\ hora = [hour |-> 0, minute |-> 0] /\ fecha_month = 1
    /\ sombra = 0 /\ pendiente = 0 /\ exposicion = "Norte"
    /\ hora_dec = 0
    /\ base = [none |-> TRUE, v |-> 0]
    /\ corr = 0 /\ hcfm_final = 0 /\ pig = 0
    /\ cat_info = "none"
    /\ msgs = <<>> /\ reads = <<>> /\ called = <<>>

IdlePipeline == files = {} /\ tablas = <<>> /\ IdleHandler

InitRange ==
    /\ IdlePipeline
    /\ pc = "call"
    /\ \E v \in Values, l \in Labels :
          call = [fn |-> "parse_range", value |-> v, range_str |-> l,
                  out |-> Returned(FALSE)]

CallParseRange ==
    /\ pc = "call"
    /\ call.fn = "parse_range"
    /\ call' = [call EXCEPT !.out = parse_range_call(call.value, call.range_str)]
    /\ pc' = "return"
    /\ UNCHANGED pipeline_vars

NextRange == CallParseRange

SpecRange == InitRange /\ [][NextRange]_vars

\* C4: for a label '>N', parse_range(v, '>N') is true for v above N and
\* false when v = N (parse_range(30, '>20') is true, parse_range(20, '>20')
\* is false).
C4_FalseAtThreshold ==
    (/\ pc = "return"
     /\ call.fn = "parse_range"
     /\ Len(call.range_str) >= 2
     /\ Head(call.range_str) = ">"
     /\ AllDigits(Tail(call.range_str)))
        => /\ call.value > DigitsToInt(Tail(call.range_str)) => call.out.ret = TRUE
           /\ call.value = DigitsToInt(Tail(call.range_str)) => call.out.ret = FALSE

\* A string float() accepts: optional surrounding blanks, one optional sign,
\* then decimal digits or the word nan
IsNumeric(t) ==
    \E i \in 1..Len(t), j \in 1..Len(t) :
        /\ i <= j
        /\ \A k \in 1..Len(t) : (k < i \/ k > j) => t[k] = " "
        /\ LET body == IF t[i] \in {"+", "-"} THEN SubSeq(t, i + 1, j)
                       ELSE SubSeq(t, i, j)
           IN  \/ body # <<>> /\ \A k \in 1..Len(body) : IsDigit(body[k])
               \/ body = <<"n", "a", "n">>

\* The label as the rules see it: lower case, stripped, '%' removed, ' a ' -> '-'
Cleaned(l) == ReplaceA(RemoveChar(Lower(Strip(l)), "%"))

\* The label parses under the rule its first applicable symbol selects
ParsesUnderRule(l) ==
    LET s == Cleaned(l) IN
    IF HasChar(s, ">") THEN IsNumeric(RemoveChar(s, ">"))
    ELSE IF HasChar(s, "+") THEN IsNumeric(RemoveChar(s, "+"))
    ELSE IF HasChar(s, "<") THEN IsNumeric(RemoveChar(s, "<"))
    ELSE IF HasChar(s, "-")
        THEN IsNumeric(Split(s, "-")[1]) /\ IsNumeric(Split(s, "-")[2])
    ELSE IsNumeric(s)

Unparsable(l) ==
    \/ Strip(l) = <<>>
    \/ Lower(Strip(l)) = <<"n", "a", "n">>
    \/ ~ParsesUnderRule(l)

----------------------------------------------------------------------------
(* get_categoria_info.  pig_value is held in halves, so the band limits,  *)
(* which the code writes in whole percent, are doubled when compared.     *)

categorias ==
    << [nombre |-> "Bajo",     rango |-> <<0, 20>>],
       [nombre |-> "Moderado", rango |-> <<21, 40>>],
       [nombre |-> "Alto",     rango |-> <<41, 60>>],
       [nombre |-> "Muy Alto", rango |-> <<61, 80>>],
       [nombre |-> "Extremo",  rango |-> <<81, 100>>] >>

\* cat["rango"][0] <= pig_value <= cat["rango"][1]
InRango(cat, pig_value) ==
    2 * cat.rango[1] <= pig_value /\ pig_value <= 2 * cat.rango[2]

\* line 88: categorias[0] if pig_value < 0 else categorias[-1]
FueraDeRango(pig_value) ==
    IF pig_value < 0 THEN categorias[1] ELSE categorias[Len(categorias)]

get_categoria_info(pig_value) ==
    IF \E i \in 1..Len(categorias) : InRango(categorias[i], pig_value)
        THEN categorias[CHOOSE i \in 1..Len(categorias) :
                            /\ InRango(categorias[i], pig_value)
                            /\ \A j \in 1..(i - 1) : ~InRango(categorias[j], pig_value)]
    ELSE FueraDeRango(pig_value)

MinPigHalves == 20
MaxPigHalves == 220

\* pig values tried, in halves: -10.0 .. 110.0
PigValues == (0 - MinPigHalves)..MaxPigHalves

InitCat ==
    /\ IdlePipeline
    /\ pc = "call"
    /\ \E p \in PigValues :
          call = [fn |-> "get_categoria_info", pig_value |-> p, out |-> "none"]

CallCategoria ==
    /\ pc = "call"
    /\ call.fn = "get_categoria_info"
    /\ call' = [call EXCEPT !.out = get_categoria_info(call.pig_value).nombre]
    /\ pc' = "return"
    /\ UNCHANGED pipeline_vars

NextCat == CallCategoria

SpecCat == InitCat /\ [][NextCat]_vars

\* The five bands as closed intervals of the real line, in halves
BandsOf(p) == { i \in 1..Len(categorias) :
                  2 * categorias[i].rango[1] <= p /\ p <= 2 * categorias[i].rango[2] }

\* C3: every p in [0,100], integer or not, lies in exactly one band and that
\* band is returned; p < 0 returns Bajo and p > 100 returns Extremo.
C3_EveryValueInItsBand ==
    (pc = "return" /\ call.fn = "get_categoria_info") =>
        LET p == call.pig_value IN
        /\ (0 <= p /\ p <= 200) =>
              /\ Cardinality(BandsOf(p)) = 1
              /\ \A i \in BandsOf(p) : call.out = categorias[i].nombre
        /\ p < 0 => call.out = "Bajo"
        /\ p > 200 => call.out = "Extremo"

----------------------------------------------------------------------------
(* Tables.  A table read by pd.read_csv(filename, sep=';') is              *)
(*   [columns |-> headers, rows |-> <<[lab |-> labels, val |-> numbers]>>] *)
(* where lab holds the leading label cells of the row (range strings) and  *)
(* val the numeric cells, in halves.  Column j of a row is lab[j] for      *)
(* j <= Len(lab) and val[j - Len(lab)] after that.                         *)

FILES == { "dia", "noche", "verano_mas50", "verano_menos50", "oto_prim_mas50",
           "oto_prim_menos50", "invierno_mas50", "invierno_menos50", "pig" }

\* the last hit instead of the first (a loop without its break)
LastIndex(hits) ==
    IF hits = {} THEN 0 ELSE CHOOSE i \in hits : \A j \in hits : j <= i

\* least index of a set of hits, 0 when there is none
\* (a for loop that breaks on the first hit, its variable None otherwise)
FirstIndex(hits) ==
    IF hits = {} THEN 0 ELSE CHOOSE i \in hits : \A j \in hits : i <= j

\* df.loc[row_idx, col] for a numeric column
Cell(df, row_idx, col) == df.rows[row_idx].val[col - Len(df.rows[row_idx].lab)]

\* the cell of column col is a label string, not a number
CellIsStr(df, row_idx, col) == col <= Len(df.rows[row_idx].lab)

----------------------------------------------------------------------------
(* get_base_hcfm *)

\* the window with its ends left out
is_day_strict(hour_float) == 8 * 60 < hour_float /\ hour_float < 20 * 60

\* line 175, hour_float in minutes
is_day_of(hour_float) == 8 * 60 <= hour_float /\ hour_float <= 20 * 60

\* lines 195-196
TempFuera(key) ==
    [none |-> TRUE, v |-> 0, read |-> <<key>>, row |-> 0, col |-> 0,
     msg |-> "La temperatura esta fuera de los rangos de la tabla"]

\* lines 197-198
HumedadFuera(key, row_idx) ==
    [none |-> TRUE, v |-> 0, read |-> <<key>>, row |-> row_idx, col |-> 0,
     msg |-> "La humedad relativa esta fuera de los rangos de la tabla"]

\* lines 195-203, once the two scans are done
BaseResult(df, key, is_day, row_idx, col_name) ==
    IF row_idx = 0 THEN TempFuera(key)
    ELSE IF col_name = 0 THEN HumedadFuera(key, row_idx)
    ELSE [none |-> FALSE, v |-> Cell(df, row_idx, col_name),
          read |-> <<key>>, row |-> row_idx, col |-> col_name,
          msg |-> IF is_day THEN "Tabla dia" ELSE "Tabla noche"]

\* lines 183-193: the row scan on column 0, the column scan on columns[1:]
BaseScan(temp_, rh, df, key, is_day) ==
    BaseResult(df, key, is_day,
               FirstIndex({ i \in 1..Len(df.rows) :
                              parse_range(temp_, df.rows[i].lab[1]) }),
               FirstIndex({ j \in 2..Len(df.columns) :
                              parse_range(rh, df.columns[j]) }))

\* lines 177-181
BaseRead(temp_, rh, key, is_day, fs, tb) ==
    IF key \notin fs
        THEN [none |-> TRUE, v |-> 0, read |-> <<key>>, row |-> 0, col |-> 0,
              msg |-> "Error: No se encontro el archivo"]
    ELSE BaseScan(temp_, rh, tb[key], key, is_day)

\* lines 174-203.  fs: files on disk, tb: their content.
\* Result: none (the value is None), v (hcfm), msg, read (file handed to
\* read_csv), row / col (the indices the scans stopped at).
get_base_hcfm(temp_, rh, hour_float, fs, tb) ==
    BaseRead(temp_, rh, IF is_day_of(hour_float) THEN "dia" ELSE "noche",
             is_day_of(hour_float), fs, tb)

----------------------------------------------------------------------------
(* get_correction *)

exp_map ==
    [ Norte |-> << <<"N">>, <<"N", "o", "r", "t", "e">> >>,
      Sur   |-> << <<"S">>, <<"S", "u", "r">> >>,
      Este  |-> << <<"E">>, <<"E", "s", "t", "e">> >>,
      Oeste |-> << <<"O">>, <<"O", "e", "s", "t", "e">>, <<"W">>,
                  <<"W", "e", "s", "t">> >> ]

Exposiciones == { "Norte", "Sur", "Este", "Oeste" }

\* lines 210-215
estacion_of(month) ==
    IF month \in {12, 1, 2} THEN "verano"
    ELSE IF month \in {6, 7, 8} THEN "invierno"
    ELSE "oto_prim"

\* line 218
pendiente_key_of(pendiente_) == IF pendiente_ >= 50 THEN "mas50" ELSE "menos50"

\* line 220: FILES[f"{estacion}_{pendiente_key}"]
CorrKey(month, pendiente_) ==
    LET e == estacion_of(month)
        k == pendiente_key_of(pendiente_)
    IN  IF e = "verano" THEN (IF k = "mas50" THEN "verano_mas50" ELSE "verano_menos50")
        ELSE IF e = "invierno"
            THEN (IF k = "mas50" THEN "invierno_mas50" ELSE "invierno_menos50")
        ELSE (IF k = "mas50" THEN "oto_prim_mas50" ELSE "oto_prim_menos50")

\* line 238: nombre.lower() in str(posible_col).lower(), for some nombre
ColMatchesExposicion(posible_col, exposicion_) ==
    \E n \in 1..Len(exp_map[exposicion_]) :
        Contains(Lower(posible_col), Lower(exp_map[exposicion_][n]))

\* lines 244-260, once the column and the row are chosen
CorrResult(df_corr, key, col_exp, sombra_idx) ==
    IF col_exp = 0
        THEN [raised |-> FALSE, v |-> 0, read |-> <<key>>, col |-> 0, row |-> 0,
              msg |-> "No se encontro columna para exposicion"]
    ELSE IF sombra_idx = 0
        THEN [raised |-> FALSE, v |-> 0, read |-> <<key>>, col |-> col_exp,
              row |-> 0, msg |-> "Sombreado fuera de rango de la tabla"]
    ELSE IF CellIsStr(df_corr, sombra_idx, col_exp)
        \* line 260: f"{correccion:+.1f}" of a str raises ValueError
        THEN [raised |-> TRUE, v |-> 0, read |-> <<key>>, col |-> col_exp,
              row |-> sombra_idx, msg |-> "ValueError"]
    ELSE [raised |-> FALSE, v |-> Cell(df_corr, sombra_idx, col_exp),
          read |-> <<key>>, col |-> col_exp, row |-> sombra_idx,
          msg |-> "Correccion estacional"]

\* lines 235-252: the column scan over all of df_corr.columns, the row scan
CorrScan(sombra_, exposicion_, df_corr, key) ==
    CorrResult(df_corr, key,
               FirstIndex({ j \in 1..Len(df_corr.columns) :
                              ColMatchesExposicion(df_corr.columns[j], exposicion_) }),
               FirstIndex({ i \in 1..Len(df_corr.rows) :
                              parse_range(sombra_, df_corr.rows[i].lab[1]) }))

\* lines 222-225
CorrRead(sombra_, exposicion_, key, fs, tb) ==
    IF key \notin fs
        THEN [raised |-> FALSE, v |-> 0, read |-> <<key>>, col |-> 0, row |-> 0,
              msg |-> "No se encontro"]
    ELSE CorrScan(sombra_, exposicion_, tb[key], key)

\* lines 205-260.  Result: raised (an exception left the function), v (the
\* correction), msg, read, col / row (the column and row selected, 0 = None).
\* hour_float is a parameter the body never reads.
get_correction(month, sombra_, exposicion_, pendiente_, hour_float, fs, tb) ==
    CorrRead(sombra_, exposicion_, CorrKey(month, pendiente_), fs, tb)

----------------------------------------------------------------------------
(* get_pig *)

\* round(x) of a float held in halves: ties go to the even integer
PyRound(h) ==
    IF h % 2 = 0 THEN h \div 2
    ELSE LET k == h \div 2 IN IF k % 2 = 0 THEN k ELSE k + 1

\* the clamp left out
TargetUnclamped(n) == IntStr(n)

\* lines 279-281: str(int(round(hcfm_final))), "2" when that is below 2
TargetOfRounded(n) == IF n < 2 THEN <<"2">> ELSE IntStr(n)

h_target_of(hcfm_final_) == TargetOfRounded(PyRound(hcfm_final_))

\* lines 277-286, once the row scan is done; col is the position of
\* h_target in df.columns, 0 when it is not a column
PigResult(df, row_match, col) ==
    IF row_match = 0
        THEN [v |-> 0, read |-> <<"pig">>, row |-> 0, col |-> 0,
              msg |-> "No data PIG para Temp/Sombra"]
    ELSE IF col # 0
        THEN [v |-> Cell(df, row_match, col), read |-> <<"pig">>,
              row |-> row_match, col |-> col, msg |-> "OK"]
    ELSE [v |-> Cell(df, row_match, Len(df.columns)), read |-> <<"pig">>,
          row |-> row_match, col |-> Len(df.columns),
          msg |-> "Humedad extrema (riesgo bajo)"]

ColumnNamed(df, h_target) ==
    FirstIndex({ j \in 1..Len(df.columns) : df.columns[j] = h_target })

\* lines 268-275: the row scan on columns 0 and 1
PigScan(hcfm_final_, temp_, shade_pct, df) ==
    PigResult(df,
              FirstIndex({ i \in 1..Len(df.rows) :
                             /\ parse_range(shade_pct, df.rows[i].lab[1])
                             /\ parse_range(temp_, df.rows[i].lab[2]) }),
              ColumnNamed(df, h_target_of(hcfm_final_)))

\* lines 262-286.  Result: v (the probability), msg, read, row / col
get_pig(hcfm_final_, temp_, shade_pct, fs, tb) ==
    IF "pig" \notin fs
        THEN [v |-> 0, read |-> <<"pig">>, row |-> 0, col |-> 0,
              msg |-> "Falta archivo PIG"]
    ELSE PigScan(hcfm_final_, temp_, shade_pct, tb["pig"])

----------------------------------------------------------------------------
(* The csv files.  Their content is not part of the program; the tables    *)
(* below have the layout the functions expect: range labels in the first   *)
(* column(s), range or name headers, numeric cells (in halves).            *)

PigMaxCol == 5

L_0_20 == <<"0", "-", "2", "0">>
L_21_40 == <<"2", "1", " ", "a", " ", "4", "0">>
L_0_50 == <<"0", "-", "5", "0">>
L_51_100 == <<"5", "1", "-", "1", "0", "0">>
L_60_100 == <<"6", "0", "-", "1", "0", "0">>
H_Sombra == <<"S", "o", "m", "b", "r", "a">>
H_Temp == <<"T", "e", "m", "p">>

TablaBase(d) ==
    [columns |-> << H_Temp, L_0_50, L_51_100 >>,
     rows |-> << [lab |-> <<L_0_20>>, val |-> <<4 + d, 9 + d>>],
                 [lab |-> <<L_21_40>>, val |-> <<3 + d, 6 + d>>] >>]

\* Two header layouts of the correction tables: single-letter headers next
\* to a column named Sombra, and a table without a column for Oeste
CorrLayouts == { "letras", "sin_oeste" }

TablaCorr(layout, d) ==
    IF layout = "letras"
        THEN [columns |-> << H_Sombra, <<"N">>, <<"S">>, <<"E">>, <<"O">> >>,
              rows |-> << [lab |-> <<L_0_50>>, val |-> <<0 - 4, d, 2, 3>>],
                          [lab |-> <<L_60_100>>, val |-> <<1, 2, d + 4, 6>>] >>]
    ELSE [columns |-> << <<"%">>, <<"N">>, <<"S">>, <<"E">> >>,
          rows |-> << [lab |-> <<L_0_50>>, val |-> <<0 - 4, d, 2>>],
                      [lab |-> <<L_60_100>>, val |-> <<1, 2, d + 4>>] >>]

\* the cell of row r under humidity column c (c = 2 .. maxcol), in halves:
\* the probability falls as the humidity rises
PigCell(r, c) ==
    LET x == 195 - 25 * (r - 1) - 37 * (c - 2) IN IF x < 0 THEN 0 ELSE x

\* probability table with the humidity columns "2" .. str(maxcol)
TablaPig(maxcol) ==
    [columns |-> << H_Sombra, H_Temp >> \o [c \in 1..(maxcol - 1) |-> IntStr(c + 1)],
     rows |-> << [lab |-> <<L_0_50, L_0_20>>,
                  val |-> [c \in 1..(maxcol - 1) |-> PigCell(1, c + 1)]],
                 [lab |-> <<L_0_50, L_21_40>>,
                  val |-> [c \in 1..(maxcol - 1) |-> PigCell(2, c + 1)]],
                 [lab |-> <<L_60_100, L_0_20>>,
                  val |-> [c \in 1..(maxcol - 1) |-> PigCell(3, c + 1)]] >>]

CorrOffset(key) ==
    CASE key = "verano_mas50" -> 0 [] key = "verano_menos50" -> 1
      [] key = "oto_prim_mas50" -> 2 [] key = "oto_prim_menos50" -> 3
      [] key = "invierno_mas50" -> 4 [] OTHER -> 5

Tablas(layout) ==
    [key \in FILES |->
        IF key = "dia" THEN TablaBase(0)
        ELSE IF key = "noche" THEN TablaBase(2)
        ELSE IF key = "pig" THEN TablaPig(PigMaxCol)
        ELSE TablaCorr(layout, CorrOffset(key))]

----------------------------------------------------------------------------
(* The page: widgets, and the handler of the calculate button *)

Temps == { 5, 25, 60 }
Humedades == { 30, 120 }
Horas == { [hour |-> 7, minute |-> 59], [hour |-> 8, minute |-> 0],
           [hour |-> 20, minute |-> 0], [hour |-> 20, minute |-> 1] }
Meses == { 1, 4, 7 }
Sombras == { 0, 55, 60 }
Pendientes == { 10, 50 }

\* every csv present, or exactly one of them absent
FileSets == { FILES } \cup { FILES \ {k} : k \in FILES }

None == [none |-> TRUE, v |-> 0]

Init ==
    /\ files \in FileSets
    /\ \E layout \in CorrLayouts : tablas = Tablas(layout)
    /\ temp \in Temps /\ hr \in Humedades /\ hora \in Horas
    /\ fecha_month \in Meses /\ sombra \in Sombras /\ pendiente \in Pendientes
    /\ exposicion \in Exposiciones
    /\ pc = "button"
    /\ hora_dec = 0 /\ base = None /\ corr = 0 /\ hcfm_final = 0 /\ pig = 0
    /\ cat_info = "none"
    /\ msgs = <<>> /\ reads = <<>> /\ called = <<>>
    /\ call = NoCall

widgets == <<files, tablas, temp, hr, hora, fecha_month, sombra, pendiente, exposicion>>

\* line 413: hora.hour + hora.minute/60.0, in minutes
hora_dec_of(h) == 60 * h.hour + h.minute

\* lines 411-416: the button is pressed; hora_dec and get_base_hcfm
\* lines 512-514: base is None -> st.error, nothing else is run
BaseReturns(r) ==
    /\ base' = [none |-> r.none, v |-> r.v]
    /\ msgs' = Append(msgs, r.msg)
    /\ reads' = reads \o r.read
    /\ called' = Append(called, "get_base_hcfm")
    /\ pc' = IF r.none THEN "error" ELSE "base"

CalcularBase ==
    /\ pc = "button"
    /\ hora_dec' = hora_dec_of(hora)
    /\ BaseReturns(get_base_hcfm(temp, hr, hora_dec_of(hora), files, tablas))
    /\ UNCHANGED <<widgets, corr, hcfm_final, pig, cat_info, call>>

\* lines 419-421: get_correction, hcfm_final = base + corr
\* an exception that leaves get_correction ends the handler (no try around it)
CorrReturns(r) ==
    /\ reads' = reads \o r.read
    /\ called' = Append(called, "get_correction")
    /\ msgs' = Append(msgs, r.msg)
    /\ corr' = IF r.raised THEN corr ELSE r.v
    /\ hcfm_final' = IF r.raised THEN hcfm_final ELSE base.v + r.v
    /\ pc' = IF r.raised THEN "exception" ELSE "corr"

CalcularCorreccion ==
    /\ pc = "base"
    /\ CorrReturns(get_correction(fecha_month, sombra, exposicion, pendiente,
                                  hora_dec, files, tablas))
    /\ UNCHANGED <<widgets, hora_dec, base, pig, cat_info, call>>

\* line 423: get_pig
PigReturns(r) ==
    /\ pig' = r.v
    /\ reads' = reads \o r.read
    /\ called' = Append(called, "get_pig")
    /\ msgs' = Append(msgs, r.msg)
    /\ pc' = "pig"

CalcularPig ==
    /\ pc = "corr"
    /\ PigReturns(get_pig(hcfm_final, temp, sombra, files, tablas))
    /\ UNCHANGED <<widgets, hora_dec, base, corr, hcfm_final, cat_info, call>>

\* lines 426-510: get_categoria_info and the rendering of the results
CalcularCategoria ==
    /\ pc = "pig"
    /\ cat_info' = get_categoria_info(pig).nombre
    /\ called' = Append(called, "get_categoria_info")
    /\ pc' = "results"
    /\ UNCHANGED <<widgets, hora_dec, base, corr, hcfm_final, pig, msgs, reads, call>>

Next == CalcularBase \/ CalcularCorreccion \/ CalcularPig \/ CalcularCategoria

Spec == Init /\ [][Next]_vars

Terminal == { "error", "exception", "results" }

\* C1: a base-moisture failure is terminal (nothing else is run, no
\* probability or category); once get_base_hcfm returned a value the handler
\* always ends with hcfm_final = base + corr, a probability and a category.
C1_BaseTerminalOthersDegrade ==
    /\ (pc # "button" /\ base.none) =>
          /\ pc = "error"
          /\ called = <<"get_base_hcfm">>
          /\ cat_info = "none"
    /\ (pc \in Terminal /\ ~base.none) =>
          /\ pc = "results"
          /\ called = <<"get_base_hcfm", "get_correction", "get_pig",
                        "get_categoria_info">>
          /\ hcfm_final = base.v + corr
          /\ cat_info # "none"

OutOfRangeMsgs ==
    { "La temperatura esta fuera de los rangos de la tabla",
      "La humedad relativa esta fuera de los rangos de la tabla",
      "Sombreado fuera de rango de la tabla",
      "No se encontro columna para exposicion",
      "No data PIG para Temp/Sombra" }

\* C2: when a csv the inputs need is absent, the handler ends in a failure
\* that is not an out-of-range result, and no correction, probability or
\* category is produced after the failed read.
C2_MissingTableFatal ==
    \A i \in 1..Len(reads) :
        reads[i] \notin files =>
            /\ pc = "error"
            /\ Len(reads) = i
            /\ msgs[i] \notin OutOfRangeMsgs
            /\ cat_info = "none"

----------------------------------------------------------------------------
(* generar_interpretacion_tecnica, and the part of the button handler     *)
(* that shows the category box and then the interpretation of one pig.    *)

\* lines 96-128: the if / elif chain on pig_value (in halves)
generar_interpretacion_tecnica(pig_value) ==
    IF pig_value <= 2 * 20 THEN
        [categoria |-> "riesgo bajo",
         proporcion |-> "una minoria de las fuentes de calor potenciales"]
    ELSE IF pig_value <= 2 * 40 THEN
        [categoria |-> "riesgo moderado",
         proporcion |-> "aproximadamente un tercio de las fuentes de calor potenciales"]
    ELSE IF pig_value <= 2 * 60 THEN
        [categoria |-> "riesgo alto",
         proporcion |-> IF pig_value <= 2 * 50
                           THEN "aproximadamente la mitad de las fuentes de calor potenciales"
                           ELSE "la mayoria de las fuentes de calor potenciales"]
    ELSE IF pig_value <= 2 * 80 THEN
        [categoria |-> "riesgo muy alto",
         proporcion |-> "la gran mayoria de las fuentes de calor comunes"]
    ELSE
        [categoria |-> "riesgo extremo",
         proporcion |-> "practicamente cualquier fuente de calor"]

\* the handler has a pig and is about to render the results (line 425)
InitPagina ==
    /\ files = {} /\ tablas = <<>>
    /\ temp = 0 /\ hr = 0 /\ hora = [hour |-> 0, minute |-> 0] /\ fecha_month = 1
    /\ sombra = 0 /\ pendiente = 0 /\ exposicion = "Norte"
    /\ hora_dec = 0
    /\ base = [none |-> FALSE, v |-> 0]
    /\ corr = 0 /\ hcfm_final = 0
    /\ pig \in PigValues
    /\ cat_info = "none"
    /\ msgs = <<>> /\ reads = <<>> /\ called = <<>>
    /\ pc = "pig"
    /\ call = NoCall

\* lines 426-452: cat_info = get_categoria_info(pig) and the coloured box
MostrarCategoria ==
    /\ pc = "pig"
    /\ cat_info' = get_categoria_info(pig).nombre
    /\ called' = Append(called, "get_categoria_info")
    /\ pc' = "categoria"
    /\ UNCHANGED <<widgets, hora_dec, base, corr, hcfm_final, pig, msgs, reads, call>>

\* lines 455-469: generar_interpretacion_tecnica(pig) and its text box
MostrarInterpretacion ==
    /\ pc = "categoria"
    /\ call' = [fn |-> "generar_interpretacion_tecnica", pig_value |-> pig,
                out |-> generar_interpretacion_tecnica(pig)]
    /\ called' = Append(called, "generar_interpretacion_tecnica")
    /\ pc' = "pagina"
    /\ UNCHANGED <<widgets, hora_dec, base, corr, hcfm_final, pig, cat_info, msgs, reads>>

NextPagina == MostrarCategoria \/ MostrarInterpretacion

SpecPagina == InitPagina /\ [][NextPagina]_vars

\* the band a category phrase of the text names
BandaDeTexto(categoria) ==
    CASE categoria = "riesgo bajo"     -> "Bajo"
      [] categoria = "riesgo moderado" -> "Moderado"
      [] categoria = "riesgo alto"     -> "Alto"
      [] categoria = "riesgo muy alto" -> "Muy Alto"
      [] categoria = "riesgo extremo"  -> "Extremo"

\* C11: for every pig value, integer or not, inside or outside [0,100], the
\* band shown in the coloured box (get_categoria_info) is the band that the
\* interpretation text (generar_interpretacion_tecnica) names.
C11_BoxAndTextAgree ==
    (pc = "pagina" /\ call.fn = "generar_interpretacion_tecnica") =>
        BandaDeTexto(call.out.categoria) = cat_info

----------------------------------------------------------------------------
(* Calls of get_base_hcfm on enumerated day / night tables *)

MaxRows == 2
MaxCols == 2

L_lt20 == <<"<", "2", "0">>
L_10_30 == <<"1", "0", "-", "3", "0">>
L_gt30 == <<">", "3", "0">>

\* overlapping and unparsable row labels (temperature)
RowLabelPool == { L_lt20, L_10_30, <<"x">> }

\* overlapping column headers (relative humidity)
ColLabelPool == { L_0_50, L_gt30 }

SeqsUpTo(S, n) == UNION { [1..k -> S] : k \in 0..n }

\* a table with the given row labels and humidity headers; the cell of row
\* i and column j + 1 is d + 10 * i + j, so no two cells are equal
TablaOf(rowlabels, colheaders, d) ==
    [columns |-> <<H_Temp>> \o colheaders,
     rows |-> [i \in 1..Len(rowlabels) |->
                  [lab |-> <<rowlabels[i]>>,
                   val |-> [j \in 1..Len(colheaders) |-> d + 10 * i + j]]]]

BaseTemps == { 15, 25, 40 }
BaseHumedades == { -1, 40, 60 }
\* hour_float in minutes: 7:59, 8:00, 14:00, 20:00, 20:01
BaseHours == { 479, 480, 840, 1200, 1201 }

InitBase ==
    /\ IdleHandler
    /\ pc = "call"
    /\ files \in { {"dia", "noche"}, {"dia"}, {"noche"} }
    /\ \E rl \in SeqsUpTo(RowLabelPool, MaxRows), ch \in SeqsUpTo(ColLabelPool, MaxCols) :
          tablas = [dia |-> TablaOf(rl, ch, 0), noche |-> TablaOf(rl, ch, 100)]
    /\ \E t \in BaseTemps, h \in BaseHumedades, hf \in BaseHours :
          call = [fn |-> "get_base_hcfm", temp |-> t, rh |-> h, hour_float |-> hf,
                  out |-> [none |-> TRUE, v |-> 0, read |-> <<>>, row |-> 0,
                           col |-> 0, msg |-> ""]]

CallBase ==
    /\ pc = "call"
    /\ call.fn = "get_base_hcfm"
    /\ call' = [call EXCEPT !.out = get_base_hcfm(call.temp, call.rh, call.hour_float,
                                                  files, tablas)]
    /\ pc' = "return"
    /\ UNCHANGED pipeline_vars

NextBase == CallBase

SpecBase == InitBase /\ [][NextBase]_vars

BaseReturned == pc = "return" /\ call.fn = "get_base_hcfm"

\* C6: the day table is read exactly when 8.0 <= hour <= 20.0 (8.0 and 20.0
\* included, 7:59 and 20:01 excluded), the night table otherwise, and one
\* table is read per call; a returned value is a cell of that table.
C6_DayWindow ==
    BaseReturned =>
        /\ Len(call.out.read) = 1
        /\ (call.hour_float >= 480 /\ call.hour_float <= 1200) => call.out.read[1] = "dia"
        /\ (call.hour_float < 480 \/ call.hour_float > 1200) => call.out.read[1] = "noche"
        /\ call.hour_float \in {480, 1200} => call.out.read[1] = "dia"
        /\ call.hour_float \in {479, 1201} => call.out.read[1] = "noche"
        /\ ~call.out.none =>
              call.out.v = Cell(tablas[call.out.read[1]], call.out.row, call.out.col)

\* C6 witness: a value was returned from the day table at 20:00
C6_Witness ==
    /\ BaseReturned
    /\ call.hour_float = 1200
    /\ ~call.out.none
    /\ call.out.read = <<"dia">>

\* rows whose label matches the temperature, columns after column 0 whose
\* header matches the relative humidity, in the table of the call
TableRead == tablas[call.out.read[1]]

MatchingRows ==
    { i \in 1..Len(TableRead.rows) : parse_range(call.temp, TableRead.rows[i].lab[1]) }

MatchingCols ==
    { j \in 2..Len(TableRead.columns) : parse_range(call.rh, TableRead.columns[j]) }

\* C9: with a matching row and a matching column the value is the cell of
\* the topmost matching row and leftmost matching column; without a matching
\* row the temperature message, with a row but no column the humidity message.
C9_FirstMatch ==
    (BaseReturned /\ call.out.read[1] \in files) =>
        /\ (MatchingRows # {} /\ MatchingCols # {}) =>
              /\ ~call.out.none
              /\ \E i \in MatchingRows, j \in MatchingCols :
                    /\ \A k \in MatchingRows : i <= k
                    /\ \A k \in MatchingCols : j <= k
                    /\ call.out.v = TableRead.rows[i].val[j - 1]
        /\ MatchingRows = {} =>
              /\ call.out.none
              /\ call.out.msg = "La temperatura esta fuera de los rangos de la tabla"
        /\ (MatchingRows # {} /\ MatchingCols = {}) =>
              /\ call.out.none
              /\ call.out.msg = "La humedad relativa esta fuera de los rangos de la tabla"

\* C9 witness: two rows and two columns match and a value was returned
C9_Witness ==
    /\ BaseReturned
    /\ call.out.read[1] \in files
    /\ Cardinality(MatchingRows) = 2
    /\ Cardinality(MatchingCols) = 2
    /\ ~call.out.none

----------------------------------------------------------------------------
(* Calls of get_pig on probability tables of every width *)

MinHcfmHalves == 6
ExtraHcfmHalves == 6

\* hcfm_final values tried, in halves: from -3.0 to 3.0 above the widest table
HcfmValues == (0 - MinHcfmHalves)..(2 * PigMaxCol + ExtraHcfmHalves)

InitPig ==
    /\ IdleHandler
    /\ pc = "call"
    /\ files = {"pig"}
    /\ \E m \in 2..PigMaxCol : tablas = [pig |-> TablaPig(m)]
    /\ \E h \in HcfmValues, t \in Temps, sh \in Sombras :
          call = [fn |-> "get_pig", hcfm_final |-> h, temp |-> t, shade_pct |-> sh,
                  out |-> [v |-> 0, read |-> <<>>, row |-> 0, col |-> 0, msg |-> ""]]

CallPig ==
    /\ pc = "call"
    /\ call.fn = "get_pig"
    /\ call' = [call EXCEPT !.out = get_pig(call.hcfm_final, call.temp, call.shade_pct,
                                            files, tablas)]
    /\ pc' = "return"
    /\ UNCHANGED pipeline_vars

NextPig == CallPig

SpecPig == InitPig /\ [][NextPig]_vars

PigReturned == pc = "return" /\ call.fn = "get_pig"

\* n is round(h / 2): the nearest integer, the even one on a tie
IsRounded(h, n) ==
    /\ 2 * n - h <= 1 /\ h - 2 * n <= 1
    /\ (2 * n - h = 1 \/ h - 2 * n = 1) => n % 2 = 0

\* the widest humidity column of the table of the call: "2" .. str(PigWidth)
PigWidth == Len(tablas["pig"].columns) - 1

PigRowMatched ==
    \E i \in 1..Len(tablas["pig"].rows) :
        /\ parse_range(call.shade_pct, tablas["pig"].rows[i].lab[1])
        /\ parse_range(call.temp, tablas["pig"].rows[i].lab[2])

\* C7: with a matched row, the column is round(finalMoisture) clamped up to
\* 2: values rounding below 2 give the cell of column "2", a target that is
\* a header gives its cell, a target above the widest column gives the
\* rightmost cell with the extreme-humidity note.  Without a row, 0.
C7_ClampedColumn ==
    PigReturned =>
        /\ ~PigRowMatched => call.out.v = 0
        /\ PigRowMatched =>
              \E n \in (0 - MinHcfmHalves)..(PigMaxCol + ExtraHcfmHalves) :
                  /\ IsRounded(call.hcfm_final, n)
                  /\ n < 2 =>
                        /\ call.out.v = PigCell(call.out.row, 2)
                        /\ call.out.msg = "OK"
                  /\ (2 <= n /\ n <= PigWidth) =>
                        /\ call.out.v = PigCell(call.out.row, n)
                        /\ call.out.msg = "OK"
                  /\ n > PigWidth =>
                        /\ call.out.v = PigCell(call.out.row, PigWidth)
                        /\ call.out.msg = "Humedad extrema (riesgo bajo)"

\* C7 witness: a negative final moisture was resolved on a matched row of a
\* table that has more columns than "2"
C7_Witness ==
    /\ PigReturned
    /\ PigRowMatched
    /\ call.hcfm_final < 0
    /\ PigWidth >= 3
    /\ call.out.col = 3

----------------------------------------------------------------------------
(* Calls of get_correction on enumerated header lists *)

MaxHeaders == 3

H_Norte == <<"N", "o", "r", "t", "e">>
H_Oeste == <<"O", "e", "s", "t", "e">>
H_8_12 == <<"8", ":", "0", "0", " ", "a", " ", "1", "2", ":", "0", "0">>
H_12_16 == <<"1", "2", ":", "0", "0", " ", "a", " ", "1", "6", ":", "0", "0">>

\* headers of the label column, and of the columns after it: aspect
\* letters, aspect names, hour windows
LabelHeaders == { H_Sombra, <<"%">> }
HeaderPool == { <<"N">>, <<"S">>, <<"E">>, <<"O">>, H_Norte, H_Oeste, H_8_12, H_12_16 }

\* correction table with the given headers after the label column; the cell
\* of row i under header j is 10 * i + j
TablaCorrOf(labelheader, headers) ==
    [columns |-> <<labelheader>> \o headers,
     rows |-> [i \in 1..2 |->
                  [lab |-> <<IF i = 1 THEN L_0_50 ELSE L_60_100>>,
                   val |-> [j \in 1..Len(headers) |-> 10 * i + j]]]]

\* hour_float in minutes: 10:00 and 14:00
CorrHours == { 600, 840 }

InitCorr ==
    /\ IdleHandler
    /\ pc = "call"
    /\ files = {"verano_menos50"}
    /\ \E lh \in LabelHeaders, hs \in SeqsUpTo(HeaderPool, MaxHeaders) :
          tablas = [verano_menos50 |-> TablaCorrOf(lh, hs)]
    /\ \E sh \in {0, 55}, e \in Exposiciones, hf \in CorrHours :
          call = [fn |-> "get_correction", month |-> 1, sombra |-> sh,
                  exposicion |-> e, pendiente |-> 10, hour_float |-> hf,
                  out |-> [raised |-> FALSE, v |-> 0, read |-> <<>>, col |-> 0,
                           row |-> 0, msg |-> ""]]

CallCorr ==
    /\ pc = "call"
    /\ call.fn = "get_correction"
    /\ call' = [call EXCEPT !.out = get_correction(call.month, call.sombra,
                                       call.exposicion, call.pendiente,
                                       call.hour_float, files, tablas)]
    /\ pc' = "return"
    /\ UNCHANGED pipeline_vars

NextCorr == CallCorr

SpecCorr == InitCorr /\ [][NextCorr]_vars

CorrReturned == pc = "return" /\ call.fn = "get_correction"

CorrColumns == tablas["verano_menos50"].columns

\* the hour window a header encodes, in minutes (<<0, 0>>: none)
HourWindow(h) ==
    IF h = H_8_12 THEN <<480, 720>>
    ELSE IF h = H_12_16 THEN <<720, 960>>
    ELSE <<0, 0>>

WindowColumns(hour_float) ==
    { j \in 2..Len(CorrColumns) :
        /\ HourWindow(CorrColumns[j]) # <<0, 0>>
        /\ HourWindow(CorrColumns[j])[1] <= hour_float
        /\ hour_float <= HourWindow(CorrColumns[j])[2] }

\* C8: when some header encodes an hour window that contains hourDecimal,
\* the column read is the first such column.
C8_ColumnByHour ==
    (CorrReturned /\ WindowColumns(call.hour_float) # {}) =>
        /\ call.out.col \in WindowColumns(call.hour_float)
        /\ \A j \in WindowColumns(call.hour_float) : call.out.col <= j

\* the header is one of the names of the aspect (case and blanks aside)
Denotes(h, aspect) ==
    \E n \in 1..Len(exp_map[aspect]) : Lower(Strip(h)) = Lower(exp_map[aspect][n])

\* C10: the header selected for an aspect denotes that aspect; it is never
\* a header of another aspect and never the label column.
C10_NoCrossMatch ==
    (CorrReturned /\ call.out.col # 0) =>
        /\ call.out.col # 1
        /\ Denotes(CorrColumns[call.out.col], call.exposicion)

====
